---- MODULE Spec2Model ----
(***************************************************************************)
(* A model of bro-pdns: the in-memory DNS aggregator (aggregate.go) and    *)
(* the PostgreSQL upsert protocol of the persistent store (store_pg.go).   *)
(*                                                                         *)
(* Spec       the aggregators: AddRecord, SkipRecord, Merge, GetResult     *)
(* SpecStore  concurrent writers calling the upsert procedure              *)
(***************************************************************************)
EXTENDS Integers, Sequences, FiniteSets, TLC

(***************************************************************************)
(* Bounds of the model.                                                    *)
(***************************************************************************)
MaxTs == 2          \* timestamps are 1..MaxTs
MaxAnswers == 2     \* answer slots per record
MaxCalls == 4       \* calls on the aggregators in one behaviour
MaxRecords == 2     \* AddRecord calls in one behaviour
MaxSkips == 1       \* SkipRecord calls in one behaviour
MaxMerges == 2      \* Merge calls in one behaviour
MaxResults == 1     \* GetResult calls in one behaviour
MaxRows == 2        \* rows (upsert calls) of one Update call

(***************************************************************************)
(* Values.  A query or an answer is a string; only its identity, its       *)
(* length and whether it is the sentinel "-" matter.  A TTL is the         *)
(* sequence of its characters, because stripDecimal cuts it.               *)
(***************************************************************************)
MAX_SANE_VALUE_LEN == 1000

RECURSIVE Repeat(_, _)
Repeat(c, n) ==
    IF n = 0 THEN ""
    ELSE IF n % 2 = 0 THEN LET h == Repeat(c, n \div 2) IN h \o h
    ELSE c \o Repeat(c, n - 1)

InsaneValue == Repeat("x", MAX_SANE_VALUE_LEN + 1)

\* The aggregators: Spec works on two of them, SpecFold folds all three.
Aggs == {"A", "B", "C"}
Pair == {"A", "B"}
Timestamps == 1..MaxTs
Queries == {"www.example.com", InsaneValue}
QTypes == {"A"}
TTL300 == <<"3", "0", "0", ".", "0">>
TTL60 == <<"6", "0">>
TTLDash == <<"-">>
NoTTL == <<>>
\* The answer slots a record may carry: (answer, TTL) pairs.
Slots ==
    { <<"1.1.1.1", TTL300>>, <<"1.1.1.1", TTL60>>, <<"2.2.2.2", TTLDash>>,
      <<"-", TTLDash>>, <<InsaneValue, TTL60>> }

SlotSeqs == UNION { [1..n -> Slots] : n \in 0..MaxAnswers }

\* type DNSRecord: answers and ttls are parallel lists.
DNSRecord ==
    { [ts |-> t, query |-> q, qtype |-> ty,
       answers |-> [j \in DOMAIN s |-> s[j][1]],
       ttls |-> [j \in DOMAIN s |-> s[j][2]]] :
        t \in Timestamps, q \in Queries, ty \in QTypes, s \in SlotSeqs }

uniqueTuple(query, answer, qtype) ==
    [query |-> query, answer |-> answer, qtype |-> qtype]
uniqueIndividual(value, which) == [value |-> value, which |-> which]
queryStat(count, first, last, ttl) ==
    [count |-> count, first |-> first, last |-> last, ttl |-> ttl]

(***************************************************************************)
(* func stripDecimal.  Index is strings.Index: the 0-based position of the *)
(* first occurrence, -1 when there is none.                                *)
(***************************************************************************)
Index(value, c) ==
    IF \E i \in DOMAIN value : value[i] = c
    THEN (CHOOSE i \in DOMAIN value :
              value[i] = c /\ \A j \in 1..(i - 1) : value[j] # c) - 1
    ELSE -1

stripDecimalKeepsDot(value) ==
    IF value = <<"-">> THEN <<"0">>
    ELSE LET idx == Index(value, ".")
         IN IF idx = -1 THEN value ELSE SubSeq(value, 1, idx + 1)

stripDecimal(value) ==
    IF value = <<"-">> THEN <<"0">>
    ELSE LET idx == Index(value, ".")
         IN IF idx = -1 THEN value ELSE SubSeq(value, 1, idx)

(***************************************************************************)
(* State.  The maps of an aggregator hold *queryStat pointers.  A queryStat*)
(* is allocated by one aggregator for one key, at most once (a key never   *)
(* leaves a map), so <<owner, key>> names the object: heap maps these      *)
(* addresses to the objects, and queries[d][k] (values[d][k]) is the owner *)
(* of the object that d's map holds for k.                                 *)
(***************************************************************************)
VARIABLES
    queries,          \* d.queries: tuple key -> owner of the *queryStat
    values,           \* d.values: individual key -> owner of the *queryStat
    heap,             \* the queryStat objects
    totalRecords,     \* d.totalRecords
    skippedRecords,   \* d.skippedRecords
    result,           \* the aggregationResult GetResult returned last
    \* history of the calls, read by the properties only
    seen,             \* per aggregator and key: what AddRecord calls carried
    accepted,         \* per aggregator: AddRecord calls with no insane value
    rejected,         \* per aggregator: AddRecord calls with an insane value
    afterSentinel,    \* per aggregator: keys carried by a slot after a "-"
    merged,           \* per aggregator: took part in a Merge
    gone,             \* the aggregators another one was merged from
    before,           \* the aggregators as they were before the first Merge
    calls             \* calls made so far, by operation

aggVars == <<queries, values, heap, totalRecords, skippedRecords, result>>
histVars == <<seen, accepted, rejected, afterSentinel, merged, gone, before, calls>>

(***************************************************************************)
(* State of the store: the tuples table and the writers, each one running  *)
(* one Update call, that is one transaction of upsert procedure calls.     *)
(***************************************************************************)
VARIABLES
    table,            \* the committed rows of the table: key -> row
    pending,          \* per writer: the rows its open transaction wrote
    pc,               \* per writer: where it is in Update and the procedure
    cur,              \* per writer: the arguments of the call it is in
    rows,             \* per writer: the arguments of the calls it made
    outcome,          \* per writer: the codes its calls returned
    prior,            \* the table before any writer started
    retried           \* per writer: unique_violation exceptions it caught

storeVars == <<table, pending, pc, cur, rows, outcome, prior, retried>>

(***************************************************************************)
(* State of one Update call, of one export stream and of one Close call.   *)
(***************************************************************************)
VARIABLES
    upd,              \* PGStore.Update: its position, locals and transaction
    pipe,             \* a JSON reader: the io.Pipe, its producer and consumer
    closer            \* PGStore.Close: its position and its stack

ioVars == <<upd, pipe, closer>>
vars == <<aggVars, histVars, storeVars, ioVars>>

Writers == {"w1", "w2"}

NoResult == [Tuples |-> <<>>, Individual |-> <<>>, TotalRecords |-> 0,
             SkippedRecords |-> 0, TuplesLen |-> 0, IndividualLen |-> 0]

Empty == [k \in {} |-> 0]

\* func NewDNSAggregator, for every aggregator.
NewAggregators ==
    /\ queries = [d \in Aggs |-> Empty]
    /\ values = [d \in Aggs |-> Empty]
    /\ heap = Empty
    /\ totalRecords = [d \in Aggs |-> 0]
    /\ skippedRecords = [d \in Aggs |-> 0]
    /\ result = NoResult
    /\ seen = [d \in Aggs |-> Empty]
    /\ accepted = [d \in Aggs |-> 0]
    /\ rejected = [d \in Aggs |-> 0]
    /\ afterSentinel = [d \in Aggs |-> {}]
    /\ merged = [d \in Aggs |-> FALSE]
    /\ gone = {}
    /\ before = <<>>
    /\ calls = [add |-> 0, skip |-> 0, merge |-> 0, get |-> 0]

\* No transaction is open, on the table that holds `rws`.
Writers0(rws) ==
    /\ table = rws
    /\ prior = rws
    /\ pending = [w \in Writers |-> Empty]
    /\ pc = [w \in Writers |-> "idle"]
    /\ cur = [w \in Writers |-> <<>>]
    /\ rows = [w \in Writers |-> <<>>]
    /\ outcome = [w \in Writers |-> <<>>]
    /\ retried = [w \in Writers |-> 0]

\* PGStore.Update line 160-161: the locals of a call for a snapshot of T
\* tuple entries and N individual entries, on a store that holds `old`.
NewUpdate(T, N, old) ==
    [pc |-> "begin", T |-> T, N |-> N, idx |-> 0, arguments |-> <<>>,
     batchCounter |-> 0, batches |-> <<>>, Inserted |-> 0, Updated |-> 0,
     tx |-> {}, visible |-> old, prior |-> old, err |-> "none"]

\* TupleJSONReader line 288: a new pipe for a snapshot of n entries.
NewPipe(n) ==
    [pc |-> "encode", n |-> n, i |-> 1, left |-> 0, got |-> <<>>, part |-> 0,
     rdClosed |-> FALSE, wrClosed |-> FALSE, eof |-> FALSE]

\* A store nobody has closed yet.
NewCloser == [pc |-> "open", depth |-> 0, released |-> 0]

IoIdle == upd = NewUpdate(0, 0, {}) /\ pipe = NewPipe(0) /\ closer = NewCloser

Init == NewAggregators /\ Writers0(Empty) /\ IoIdle

\* The queryStat that map m of an aggregator holds for key k.
Deref(m, h, k) == h[<<m[k], k>>]

(***************************************************************************)
(* History of the AddRecord calls, stated from the record alone: which     *)
(* keys a record carries to the maps, how often, and with which raw TTL.   *)
(***************************************************************************)
Insane(s) == Len(s) > MAX_SANE_VALUE_LEN
IsRejected(r) ==
    Insane(r.query) \/ \E j \in DOMAIN r.answers : Insane(r.answers[j])
\* The answer slots that reach the maps: not the sentinel, and no insane
\* answer at or before them.
CarriedIdx(r) ==
    IF Insane(r.query) THEN {}
    ELSE { idx \in DOMAIN r.answers :
             /\ r.answers[idx] # "-"
             /\ \A j \in 1..idx : ~Insane(r.answers[j]) }
TupleKeyAt(r, idx) == uniqueTuple(r.query, r.answers[idx], r.qtype)
AnswerKeyAt(r, idx) == uniqueIndividual(r.answers[idx], "A")
QueryKeyOf(r) == uniqueIndividual(r.query, "Q")
IdxOf(r, k) ==
    { idx \in CarriedIdx(r) : TupleKeyAt(r, idx) = k \/ AnswerKeyAt(r, idx) = k }
KeysOf(r) ==
    (IF Insane(r.query) THEN {} ELSE {QueryKeyOf(r)})
    \cup { TupleKeyAt(r, idx) : idx \in CarriedIdx(r) }
    \cup { AnswerKeyAt(r, idx) : idx \in CarriedIdx(r) }
SetMax(S) == CHOOSE x \in S : \A y \in S : y <= x
SetMin(S) == CHOOSE x \in S : \A y \in S : x <= y
NoteKey(old, r, k) ==
    LET idxs == IdxOf(r, k)
        n == IF k = QueryKeyOf(r) THEN 1 ELSE Cardinality(idxs)
        raw == IF idxs = {} THEN NoTTL ELSE r.ttls[SetMax(idxs)]
    IN  IF k \in DOMAIN old
        THEN [n |-> old[k].n + n,
              lo |-> SetMin({old[k].lo, r.ts}),
              hi |-> SetMax({old[k].hi, r.ts}),
              raw |-> IF idxs = {} THEN old[k].raw ELSE raw,
              raws |-> old[k].raws \cup { r.ttls[i] : i \in idxs }]
        ELSE [n |-> n, lo |-> r.ts, hi |-> r.ts, raw |-> raw,
              raws |-> { r.ttls[i] : i \in idxs }]
Note(old, r) ==
    [k \in DOMAIN old \cup KeysOf(r) |->
        IF k \in KeysOf(r) THEN NoteKey(old, r, k) ELSE old[k]]
\* Tuple keys carried by a slot that follows a sentinel slot of an accepted
\* record.
AfterSentinelKeys(r) ==
    IF IsRejected(r) THEN {}
    ELSE { TupleKeyAt(r, idx) : idx \in
             { i \in CarriedIdx(r) : \E j \in 1..(i - 1) : r.answers[j] = "-" } }

(***************************************************************************)
(* func (d *DNSAggregator) AddRecord.  d is the aggregator as the call     *)
(* sees it: q its queries map, v its values map, h the heap, skipped its   *)
(* skip counter, returned whether the loop returned early.                 *)
(***************************************************************************)
\* lines 119-121: `continue` goes on with the next slot
sentinelReturns(r, idx) == Len(r.answers) + 1
sentinelContinues(r, idx) == idx + 1

\* lines 102-106
firstQuery(ts) == queryStat(1, ts, ts, NoTTL)
\* lines 109-110
nextQueryNoCount(arec, ts) == [arec EXCEPT !.last = ts]
nextQuery(arec, ts) == [arec EXCEPT !.count = @ + 1, !.last = ts]
\* lines 130-135 and 146-151
firstAnswer(ts, ttl) == queryStat(1, ts, ts, ttl)
\* lines 138-140 and 154-156
nextAnswer(rec, ts, ttl) ==
    [rec EXCEPT !.count = @ + 1, !.last = ts, !.ttl = ttl]

\* lines 98-111
countQuery(d, self, r) ==
    LET query_value == uniqueIndividual(r.query, "Q")
    IN  IF query_value \notin DOMAIN d.v
        THEN [d EXCEPT !.v = @ @@ (query_value :> self),
                       !.h = @ @@ (<<self, query_value>> :> firstQuery(r.ts))]
        ELSE [d EXCEPT !.h[<<d.v[query_value], query_value>>] =
                           nextQuery(@, r.ts)]

\* lines 122-141
countTuple(d, self, r, idx) ==
    LET ttl == stripDecimal(r.ttls[idx])
        uquery == uniqueTuple(r.query, r.answers[idx], r.qtype)
    IN  IF uquery \notin DOMAIN d.q
        THEN [d EXCEPT !.q = @ @@ (uquery :> self),
                       !.h = @ @@ (<<self, uquery>> :> firstAnswer(r.ts, ttl))]
        ELSE [d EXCEPT !.h[<<d.q[uquery], uquery>>] = nextAnswer(@, r.ts, ttl)]

\* lines 122, 143-157
countAnswer(d, self, r, idx) ==
    LET ttl == stripDecimal(r.ttls[idx])
        answer_value == uniqueIndividual(r.answers[idx], "A")
    IN  IF answer_value \notin DOMAIN d.v
        THEN [d EXCEPT !.v = @ @@ (answer_value :> self),
                       !.h = @ @@ (<<self, answer_value>> :>
                                       firstAnswer(r.ts, ttl))]
        ELSE [d EXCEPT !.h[<<d.v[answer_value], answer_value>>] =
                           nextAnswer(@, r.ts, ttl)]

\* lines 113-158: the loop over the answers, from slot idx on
RECURSIVE answerLoop(_, _, _, _)
answerLoop(d, self, r, idx) ==
    IF idx > Len(r.answers) THEN d
    ELSE IF Len(r.answers[idx]) > MAX_SANE_VALUE_LEN
         THEN [d EXCEPT !.skipped = @ + 1]
    ELSE IF r.answers[idx] = "-"
         THEN answerLoop(d, self, r, sentinelContinues(r, idx))
    ELSE answerLoop(countAnswer(countTuple(d, self, r, idx), self, r, idx),
                    self, r, idx + 1)

AddRecord(self, r) ==
    /\ IF Len(r.query) > MAX_SANE_VALUE_LEN
       THEN /\ skippedRecords' = [skippedRecords EXCEPT ![self] = @ + 1]
            /\ UNCHANGED <<queries, values, heap, totalRecords>>
       ELSE LET d0 == [q |-> queries[self], v |-> values[self], h |-> heap,
                       skipped |-> skippedRecords[self]]
                d == answerLoop(countQuery(d0, self, r), self, r, 1)
            IN  /\ totalRecords' = [totalRecords EXCEPT ![self] = @ + 1]
                /\ queries' = [queries EXCEPT ![self] = d.q]
                /\ values' = [values EXCEPT ![self] = d.v]
                /\ heap' = d.h
                /\ skippedRecords' = [skippedRecords EXCEPT ![self] = d.skipped]
    /\ UNCHANGED result
    /\ seen' = [seen EXCEPT ![self] = Note(@, r)]
    /\ accepted' = [accepted EXCEPT ![self] = IF IsRejected(r) THEN @ ELSE @ + 1]
    /\ rejected' = [rejected EXCEPT ![self] = IF IsRejected(r) THEN @ + 1 ELSE @]
    /\ afterSentinel' = [afterSentinel EXCEPT ![self] = @ \cup AfterSentinelKeys(r)]
    /\ UNCHANGED <<merged, gone>>

\* func (d *DNSAggregator) SkipRecord
SkipRecord(self) ==
    /\ skippedRecords' = [skippedRecords EXCEPT ![self] = @ + 1]
    /\ UNCHANGED <<queries, values, heap, totalRecords, result>>
    /\ UNCHANGED <<seen, accepted, rejected, afterSentinel, merged, gone>>

(***************************************************************************)
(* func (d *DNSAggregator) Merge.  m is d's map, om is other's map; the    *)
(* loop visits the keys of other's map one by one.  `d.queries[q] = stat`  *)
(* stores other's pointer: afterwards both maps hold the same object.      *)
(***************************************************************************)
Less(a, b) == IF a < b THEN a ELSE b
Greater(a, b) == IF a > b THEN a ELSE b

\* lines 193-200 and 208-215
combineLastOverwrites(rec, stat) ==
    [count |-> rec.count + stat.count,
     first |-> IF stat.first < rec.first THEN stat.first ELSE rec.first,
     last |-> stat.last,
     ttl |-> stat.ttl]
combineKeepsTTL(rec, stat) ==
    [count |-> rec.count + stat.count,
     first |-> IF stat.first < rec.first THEN stat.first ELSE rec.first,
     last |-> IF stat.last > rec.last THEN stat.last ELSE rec.last,
     ttl |-> rec.ttl]
combine(rec, stat) ==
    [count |-> rec.count + stat.count,
     first |-> IF stat.first < rec.first THEN stat.first ELSE rec.first,
     last |-> IF stat.last > rec.last THEN stat.last ELSE rec.last,
     ttl |-> stat.ttl]

\* lines 189-201 and 204-216: one iteration, for key k of other's map
mergeKey(mh, om, k) ==
    IF k \notin DOMAIN mh.m
    THEN [mh EXCEPT !.m = @ @@ (k :> om[k])]
    ELSE [mh EXCEPT !.h[<<mh.m[k], k>>] = combine(@, mh.h[<<om[k], k>>])]

\* lines 188-202 and 203-217: the range loop over the keys left to visit
RECURSIVE mergeLoop(_, _, _)
mergeLoop(mh, om, keys) ==
    IF keys = {} THEN mh
    ELSE LET k == CHOOSE x \in keys : TRUE
         IN  mergeLoop(mergeKey(mh, om, k), om, keys \ {k})

\* The aggregators after d.Merge(other), from the state s = [q, v, h].
merge(s, d, other) ==
    LET a == mergeLoop([m |-> s.q[d], h |-> s.h], s.q[other],
                       DOMAIN s.q[other])
        b == mergeLoop([m |-> s.v[d], h |-> a.h], s.v[other],
                       DOMAIN s.v[other])
    IN  [q |-> [s.q EXCEPT ![d] = a.m],
         v |-> [s.v EXCEPT ![d] = b.m],
         h |-> b.h]

Merge(d, other) ==
    /\ LET s == merge([q |-> queries, v |-> values, h |-> heap], d, other)
       IN  /\ queries' = s.q
           /\ values' = s.v
           /\ heap' = s.h
    /\ merged' = [merged EXCEPT ![d] = TRUE, ![other] = TRUE]
    /\ gone' = gone \cup {other}
    /\ UNCHANGED <<totalRecords, skippedRecords, result>>
    /\ UNCHANGED <<seen, accepted, rejected, afterSentinel>>

(***************************************************************************)
(* func (d *DNSAggregator) GetResult.  `queryStat: *stat` copies the       *)
(* object into the entry.  A Go map is ranged over in an unspecified       *)
(* order: every order of the keys is a possible result.  Duration is wall  *)
(* clock time and is left out.                                             *)
(***************************************************************************)
Orders(S) ==
    { o \in [1..Cardinality(S) -> S] : \A i, j \in DOMAIN o : o[i] = o[j] => i = j }

\* lines 165-168 and 172-175
aggregatedKeyOnly(key, stat) == [key |-> key, stat |-> queryStat(0, 0, 0, NoTTL)]
aggregated(key, stat) == [key |-> key, stat |-> stat]

GetResult(d) ==
    /\ \E to \in Orders(DOMAIN queries[d]), io \in Orders(DOMAIN values[d]) :
          result' =
            [Tuples |-> [i \in DOMAIN to |->
                            aggregated(to[i], Deref(queries[d], heap, to[i]))],
             Individual |-> [i \in DOMAIN io |->
                            aggregated(io[i], Deref(values[d], heap, io[i]))],
             TotalRecords |-> totalRecords[d],
             SkippedRecords |-> skippedRecords[d],
             TuplesLen |-> Len(to),
             IndividualLen |-> Len(io)]
    /\ UNCHANGED <<queries, values, heap, totalRecords, skippedRecords>>
    /\ UNCHANGED <<seen, accepted, rejected, afterSentinel, merged, gone>>

(***************************************************************************)
(* Spec: two aggregators and any interleaving of the four operations,      *)
(* within the bounds on the number of calls.                               *)
(***************************************************************************)
Budget(op, max) ==
    /\ calls.add + calls.skip + calls.merge + calls.get < MaxCalls
    /\ calls[op] < max
    /\ calls' = [calls EXCEPT ![op] = @ + 1]

\* The aggregators' maps, with the pointers followed.
View(m, h) == [k \in DOMAIN m |-> Deref(m, h, k)]
Contents ==
    [d \in Aggs |-> [q |-> View(queries[d], heap), v |-> View(values[d], heap)]]
KeepBefore == before' = IF before = <<>> THEN Contents ELSE before

Add(d, r) ==
    Budget("add", MaxRecords) /\ AddRecord(d, r) /\ UNCHANGED <<before, storeVars, ioVars>>
Skip(d) ==
    Budget("skip", MaxSkips) /\ SkipRecord(d) /\ UNCHANGED <<before, storeVars, ioVars>>
Fold(d, other) ==
    Budget("merge", MaxMerges) /\ Merge(d, other) /\ UNCHANGED <<before, storeVars, ioVars>>
Get(d) ==
    Budget("get", MaxResults) /\ GetResult(d) /\ UNCHANGED <<before, storeVars, ioVars>>

Next ==
    \/ \E d \in Pair, r \in DNSRecord : Add(d, r)
    \/ \E d \in Pair : Skip(d)
    \/ \E d, other \in Pair : Fold(d, other)
    \/ \E d \in Pair : Get(d)

Spec == Init /\ [][Next]_vars

(***************************************************************************)
(* SpecFold: the map-reduce use.  Three private aggregators take as many   *)
(* records as there are aggregators, at most two each; then they are       *)
(* folded into one by Merge calls, in any order and grouping: an           *)
(* aggregator that was merged from is not used again.                      *)
(***************************************************************************)
FoldRecords == { r \in DNSRecord : ~IsRejected(r) /\ Len(r.answers) <= 1 }

FoldAdd(d, r) ==
    /\ calls.merge = 0
    /\ calls.add < Cardinality(Aggs)
    /\ accepted[d] < 2
    /\ AddRecord(d, r)
    /\ calls' = [calls EXCEPT !.add = @ + 1]
    /\ UNCHANGED <<before, storeVars, ioVars>>

FoldMerge(d, other) ==
    /\ d # other
    /\ d \notin gone
    /\ other \notin gone
    /\ Merge(d, other)
    /\ calls' = [calls EXCEPT !.merge = @ + 1]
    /\ KeepBefore
    /\ UNCHANGED <<storeVars, ioVars>>

NextFold ==
    \/ \E d \in Aggs, r \in FoldRecords : FoldAdd(d, r)
    \/ \E d, other \in Aggs : FoldMerge(d, other)

SpecFold == Init /\ [][NextFold]_vars

(***************************************************************************)
(* Properties of the aggregators.                                          *)
(***************************************************************************)
IsTupleKey(k) == "answer" \in DOMAIN k
Has(d, k) == k \in DOMAIN (IF IsTupleKey(k) THEN queries[d] ELSE values[d])
StatAt(d, k) ==
    IF IsTupleKey(k) THEN Deref(queries[d], heap, k) ELSE Deref(values[d], heap, k)
KeysAt(d) == DOMAIN queries[d] \cup DOMAIN values[d]

\* C1: after AddRecord calls alone on a fresh aggregator, every Stat has
\* first = the minimum and last = the maximum of the timestamps of the
\* records that updated its key.
C1_FirstLastAreMinMax ==
    \A d \in Aggs : ~merged[d] =>
        \A k \in DOMAIN seen[d] :
            /\ Has(d, k)
            /\ StatAt(d, k).first = seen[d][k].lo
            /\ StatAt(d, k).last = seen[d][k].hi

\* C2: every Stat of every map of every aggregator has first <= last.
C2_FirstLeqLast ==
    \A d \in Aggs : \A k \in KeysAt(d) : StatAt(d, k).first <= StatAt(d, k).last

\* C3: an AddRecord call with an insane query or answer leaves both maps,
\* the Stats and the total unchanged and adds exactly one to the skip
\* counter.
C3_InsaneRecordDiscarded ==
    [][\A d \in Aggs : rejected'[d] > rejected[d] =>
          /\ queries'[d] = queries[d]
          /\ values'[d] = values[d]
          /\ heap' = heap
          /\ totalRecords'[d] = totalRecords[d]
          /\ skippedRecords'[d] = skippedRecords[d] + 1]_vars

\* C4: after accepted AddRecord calls alone on a fresh aggregator the total
\* is the number of records, and the count of every key is the number of
\* times the records carried it (once per record for the query, once per
\* non-sentinel answer slot for a tuple or an answer); no count decreases.
C4_CountsAreOccurrences ==
    /\ [](\A d \in Aggs : (~merged[d] /\ rejected[d] = 0) =>
            /\ totalRecords[d] = accepted[d]
            /\ KeysAt(d) = DOMAIN seen[d]
            /\ \A k \in KeysAt(d) : StatAt(d, k).count = seen[d][k].n)
    /\ [][\A a \in DOMAIN heap :
            a \in DOMAIN heap' /\ heap'[a].count >= heap[a].count]_vars

C4_Witness ==
    \E d \in Aggs :
        /\ ~merged[d] /\ rejected[d] = 0 /\ accepted[d] = 2
        /\ \E k \in DOMAIN queries[d] :
              /\ StatAt(d, k).count = 1
              /\ StatAt(d, uniqueIndividual(k.query, "Q")).count = 2
        /\ \E k \in DOMAIN queries[d] : StatAt(d, k).count = 2

\* What a raw TTL is recorded as: "-" as "0", the rest up to its first '.'.
Normalised(raw) ==
    IF raw = <<"-">> THEN <<"0">>
    ELSE LET n == CHOOSE n \in 0..Len(raw) :
                     /\ \A j \in 1..n : raw[j] # "."
                     /\ n = Len(raw) \/ raw[n + 1] = "."
         IN  [j \in 1..n |-> raw[j]]

\* C5: after AddRecord calls alone on a fresh aggregator the ttl of a tuple
\* key is the normalised TTL of the last answer slot that carried the key:
\* "-" becomes "0", anything else loses what follows its first '.',
\* the '.' included.
C5_TTLIsLastNormalised ==
    \A d \in Aggs : ~merged[d] =>
        \A k \in DOMAIN queries[d] :
            /\ k \in DOMAIN seen[d]
            /\ StatAt(d, k).ttl = Normalised(seen[d][k].raw)

C5_Witness ==
    \E d \in Aggs :
        /\ ~merged[d]
        /\ \E k \in DOMAIN queries[d] :
              /\ seen[d][k].raws = {TTL300, TTL60}
              /\ seen[d][k].raw = TTL60
              /\ StatAt(d, k).ttl = <<"6", "0">>
        /\ \E k \in DOMAIN queries[d] :
              seen[d][k].raw = TTLDash /\ StatAt(d, k).ttl = <<"0">>

\* C6: no map ever holds a key whose answer is the sentinel "-", and the
\* answer slots that follow a sentinel slot in an accepted record are
\* applied: their tuple and answer keys are in the maps.
C6_SentinelIgnored ==
    \A d \in Aggs :
        /\ \A k \in DOMAIN queries[d] : k.answer # "-"
        /\ \A k \in DOMAIN values[d] : ~(k.value = "-" /\ k.which = "A")
        /\ \A k \in afterSentinel[d] :
              /\ k \in DOMAIN queries[d]
              /\ uniqueIndividual(k.answer, "A") \in DOMAIN values[d]

C6_Witness ==
    \E d \in Aggs : \E k \in afterSentinel[d] :
        /\ k \in DOMAIN queries[d]
        /\ StatAt(d, k).count = 1
        /\ merged[d]

\* The Stat of a key both aggregators hold, and a map after a merge.
Combined(mine, theirs) ==
    queryStat(mine.count + theirs.count, Less(mine.first, theirs.first),
              Greater(mine.last, theirs.last), theirs.ttl)
MergedView(mine, theirs, now) ==
    /\ DOMAIN now = DOMAIN mine \cup DOMAIN theirs
    /\ \A k \in DOMAIN now :
          now[k] = IF k \notin DOMAIN theirs THEN mine[k]
                   ELSE IF k \notin DOMAIN mine THEN theirs[k]
                   ELSE Combined(mine[k], theirs[k])

\* C7: d.Merge(other) leaves in each map of d: for a key of other that d
\* did not have, other's Stat; for a key of both, the sum of the counts,
\* the smaller first, the larger last and other's ttl; for a key other does
\* not have, d's Stat as it was; and no other key.
C7_MergeCombines ==
    [][\A d, other \in Aggs : Merge(d, other) =>
          /\ MergedView(View(queries[d], heap), View(queries[other], heap),
                        View(queries'[d], heap'))
          /\ MergedView(View(values[d], heap), View(values[other], heap),
                        View(values'[d], heap'))]_vars

\* A merge met all three cases: d holds a Stat of its own with a count of
\* two, a Stat of its own it alone touched, and a Stat it took from other.
C7_Witness ==
    \E d \in Aggs, other \in gone :
        /\ d # other /\ merged[d] /\ calls.merge = 1 /\ calls.add = 2
        /\ \E k \in DOMAIN values[d] :
              /\ values[d][k] = d /\ k \in DOMAIN values[other]
              /\ StatAt(d, k).count = 2
        /\ \E k \in DOMAIN queries[d] : queries[d][k] = other
        /\ \E k \in DOMAIN queries[d] : k \notin DOMAIN queries[other]

\* The sum of f over S.
RECURSIVE SumOf(_, _)
SumOf(f, S) ==
    IF S = {} THEN 0
    ELSE LET x == CHOOSE x \in S : TRUE IN f[x] + SumOf(f, S \ {x})

\* The aggregators of `group` that held key k of map m before the fold.
Holders(group, m, k) == { g \in group : k \in DOMAIN before[g][m] }
FoldOf(group, m, now) ==
    /\ DOMAIN now = UNION { DOMAIN before[g][m] : g \in group }
    /\ \A k \in DOMAIN now :
          LET H == Holders(group, m, k)
          IN  /\ now[k].count = SumOf([g \in H |-> before[g][m][k].count], H)
              /\ now[k].first = SetMin({ before[g][m][k].first : g \in H })
              /\ now[k].last = SetMax({ before[g][m][k].last : g \in H })

\* C8: when private aggregators are folded into one by Merge calls, in any
\* order and grouping, the aggregator that holds the fold of a group has,
\* for every key, the sum of the group's counts, the least of its firsts
\* and the greatest of its lasts, whatever the order was; the ttl is the
\* one field left to the order.
C8_FoldOrderFree ==
    \A d \in Aggs \ gone : merged[d] =>
        /\ FoldOf({d} \cup gone, "q", View(queries[d], heap))
        /\ FoldOf({d} \cup gone, "v", View(values[d], heap))

\* All three aggregators held the same tuple key, with different
\* timestamps and not all the same ttl, and are folded into one.
C8_Witness ==
    /\ Cardinality(gone) = 2
    /\ \E d \in Aggs \ gone : \E k \in DOMAIN queries[d] :
          /\ Holders(Aggs, "q", k) = Aggs
          /\ StatAt(d, k).count = 3
          /\ StatAt(d, k).first < StatAt(d, k).last
          /\ \E g \in gone : before[g]["q"][k].ttl # StatAt(d, k).ttl
          /\ \E g \in gone : before[g]["q"][k].last > before[d]["q"][k].last

\* A result holds the maps and counters of d, entry by entry.
EntriesOf(entries, view) ==
    /\ Len(entries) = Cardinality(DOMAIN view)
    /\ { entries[i].key : i \in DOMAIN entries } = DOMAIN view
    /\ \A i \in DOMAIN entries : entries[i].stat = view[entries[i].key]
SnapshotOf(res, d) ==
    /\ EntriesOf(res.Tuples, View(queries[d], heap))
    /\ EntriesOf(res.Individual, View(values[d], heap))
    /\ res.TotalRecords = totalRecords[d]
    /\ res.SkippedRecords = skippedRecords[d]
    /\ res.TuplesLen = Len(res.Tuples)
    /\ res.IndividualLen = Len(res.Individual)

\* C9: GetResult changes nothing of the aggregator; what it returns has one
\* entry per key of each map, with the key's Stat at the time of the call,
\* and the two counters; and no later call on an aggregator changes a
\* result already returned.
C9_SnapshotIsValue ==
    [][/\ \A d \in Aggs : GetResult(d) =>
            /\ SnapshotOf(result', d)
            /\ UNCHANGED <<queries, values, heap, totalRecords, skippedRecords>>
       /\ <<queries, values, heap, totalRecords, skippedRecords>>' #
              <<queries, values, heap, totalRecords, skippedRecords>>
            => result' = result]_vars

\* A result taken of an aggregator after its first record, and a second
\* record added to the aggregator since: the entry still has a count of 1.
C9_Witness ==
    \E d \in Aggs :
        /\ calls.get = 1 /\ calls.merge = 0 /\ calls.skip = 0
        /\ accepted[d] = 2 /\ calls.add = 2
        /\ result.TotalRecords = 1 /\ result.TuplesLen = 1
        /\ result.Tuples[1].stat.count = 1
        /\ StatAt(d, result.Tuples[1].key).count = 2
        /\ totalRecords[d] = 2

(***************************************************************************)
(* The store.  PGStore.Update opens one transaction and calls the upsert   *)
(* procedure update_tuples once per row (update_individual is the same     *)
(* procedure on the other table, without the ttl column).  The statements  *)
(* of the procedure run under PostgreSQL's READ COMMITTED rules:           *)
(*  - a statement sees the committed rows and the rows its own transaction *)
(*    wrote;                                                               *)
(*  - UPDATE of a row another open transaction wrote waits for that        *)
(*    transaction to end, then updates the row as it then is; a row that   *)
(*    another open transaction inserted is not seen;                       *)
(*  - INSERT of a key another open transaction inserted waits for that     *)
(*    transaction to end; INSERT of a key that is committed raises         *)
(*    unique_violation.                                                    *)
(* A waiting statement is one whose action is not enabled.                 *)
(***************************************************************************)
StoreKeys == {"k1", "k2"}
\* The arguments of a call: the key, then tt, c, f and l.
StoreArgs ==
    { [key |-> k, tt |-> 300, c |-> 3, f |-> 1, l |-> 1] : k \in StoreKeys }
    \cup { [key |-> k, tt |-> 60, c |-> 4, f |-> MaxTs, l |-> MaxTs] : k \in StoreKeys }
\* A row from an earlier Update call.
OldRow == [count |-> 5, ttl |-> 300, first |-> MaxTs, last |-> MaxTs]
OldTables == UNION { [K -> {OldRow}] : K \in SUBSET StoreKeys }

\* Another open transaction wrote (updated or inserted) the row of key k.
neverWaits(w, k) == FALSE
WrittenByOther(w, k) == \E o \in Writers \ {w} : k \in DOMAIN pending[o]

\* lines 88-91: the SET clause of the UPDATE
setClauseClobbers(row, a) ==
    [count |-> a.c, ttl |-> a.tt,
     first |-> Less(a.f, row.first), last |-> Greater(a.l, row.last)]
setClause(row, a) ==
    [count |-> row.count + a.c, ttl |-> a.tt,
     first |-> Less(a.f, row.first), last |-> Greater(a.l, row.last)]

\* line 100: the VALUES of the INSERT
insertedRow(a) == [count |-> a.c, ttl |-> a.tt, first |-> a.f, last |-> a.l]

\* PGStore.Update line 163 has opened the transaction; lines 216-243 make
\* the next call of the procedure, for one more row.
Call(w, a) ==
    /\ pc[w] = "idle"
    /\ Len(rows[w]) < MaxRows
    /\ cur' = [cur EXCEPT ![w] = a]
    /\ rows' = [rows EXCEPT ![w] = Append(@, a)]
    /\ pc' = [pc EXCEPT ![w] = "update"]
    /\ UNCHANGED <<table, pending, outcome, prior, retried>>
    /\ UNCHANGED <<aggVars, histVars, ioVars>>

\* lines 88-95: UPDATE ... WHERE the key matches; IF found THEN RETURN 'U'
TryUpdate(w) ==
    /\ pc[w] = "update"
    /\ LET k == cur[w].key
       IN  IF k \in DOMAIN pending[w]
           THEN /\ pending' = [pending EXCEPT ![w][k] = setClause(@, cur[w])]
                /\ outcome' = [outcome EXCEPT ![w] = Append(@, "U")]
                /\ pc' = [pc EXCEPT ![w] = "idle"]
           ELSE IF k \in DOMAIN table
           THEN /\ ~WrittenByOther(w, k)
                /\ pending' = [pending EXCEPT ![w] =
                                   @ @@ (k :> setClause(table[k], cur[w]))]
                /\ outcome' = [outcome EXCEPT ![w] = Append(@, "U")]
                /\ pc' = [pc EXCEPT ![w] = "idle"]
           ELSE /\ pc' = [pc EXCEPT ![w] = "insert"]
                /\ UNCHANGED <<pending, outcome>>
    /\ UNCHANGED <<table, cur, rows, prior, retried>>
    /\ UNCHANGED <<aggVars, histVars, ioVars>>

\* lines 99-104: INSERT; RETURN 'I'; EXCEPTION WHEN unique_violation: loop
TryInsert(w) ==
    /\ pc[w] = "insert"
    /\ LET k == cur[w].key
       IN  /\ ~WrittenByOther(w, k)
           /\ IF k \in DOMAIN table
              THEN /\ pc' = [pc EXCEPT ![w] = "update"]
                   /\ retried' = [retried EXCEPT ![w] = @ + 1]
                   /\ UNCHANGED <<pending, outcome>>
              ELSE /\ pending' = [pending EXCEPT ![w] =
                                      @ @@ (k :> insertedRow(cur[w]))]
                   /\ outcome' = [outcome EXCEPT ![w] = Append(@, "I")]
                   /\ pc' = [pc EXCEPT ![w] = "idle"]
                   /\ UNCHANGED retried
    /\ UNCHANGED <<table, cur, rows, prior>>
    /\ UNCHANGED <<aggVars, histVars, ioVars>>

\* PGStore.Update line 245: s.Commit() makes the transaction's rows the
\* committed ones.
Commit(w) ==
    /\ pc[w] = "idle"
    /\ table' = [k \in DOMAIN table \cup DOMAIN pending[w] |->
                    IF k \in DOMAIN pending[w] THEN pending[w][k] ELSE table[k]]
    /\ pending' = [pending EXCEPT ![w] = Empty]
    /\ pc' = [pc EXCEPT ![w] = "committed"]
    /\ UNCHANGED <<cur, rows, outcome, prior, retried>>
    /\ UNCHANGED <<aggVars, histVars, ioVars>>

\* The transaction ends without a commit (lines 199-201: a statement
\* failed, as the victim of a deadlock does, and the process exits; or the
\* connection is lost): what it wrote is gone.
Abort(w) ==
    /\ pc[w] \in {"idle", "update", "insert"}
    /\ pending' = [pending EXCEPT ![w] = Empty]
    /\ pc' = [pc EXCEPT ![w] = "aborted"]
    /\ UNCHANGED <<table, cur, rows, outcome, prior, retried>>
    /\ UNCHANGED <<aggVars, histVars, ioVars>>

InitStore == NewAggregators /\ IoIdle /\ \E rws \in OldTables : Writers0(rws)

NextStore ==
    \/ \E w \in Writers, a \in StoreArgs : Call(w, a)
    \/ \E w \in Writers : TryUpdate(w)
    \/ \E w \in Writers : TryInsert(w)
    \/ \E w \in Writers : Commit(w)
    \/ \E w \in Writers : Abort(w)

SpecStore == InitStore /\ [][NextStore]_vars

(***************************************************************************)
(* Properties of the store.                                                *)
(***************************************************************************)
\* The calls for key k of the writers that have committed.
CommittedCalls(k) ==
    { x \in Writers \X (1..MaxRows) :
        /\ pc[x[1]] = "committed"
        /\ x[2] <= Len(rows[x[1]])
        /\ rows[x[1]][x[2]].key = k }

\* C10: whatever the interleaving of the writers, the committed row of a
\* key has the count of the row before plus the deltas of all the calls of
\* the writers that committed, the least first and the greatest last of
\* the row before and of these calls; a key nobody committed a call for is
\* as it was before.
C10_NoLostUpsert ==
    \A k \in StoreKeys :
        LET cs == CommittedCalls(k)
            old == IF k \in DOMAIN prior THEN {prior[k]} ELSE {}
        IN  IF cs = {}
            THEN (k \in DOMAIN table) = (k \in DOMAIN prior)
                 /\ (k \in DOMAIN table => table[k] = prior[k])
            ELSE /\ k \in DOMAIN table
                 /\ table[k].count =
                      SumOf([x \in cs |-> rows[x[1]][x[2]].c], cs)
                      + SumOf([x \in old |-> x.count], old)
                 /\ table[k].first =
                      SetMin({ rows[x[1]][x[2]].f : x \in cs }
                             \cup { x.first : x \in old })
                 /\ table[k].last =
                      SetMax({ rows[x[1]][x[2]].l : x \in cs }
                             \cup { x.last : x \in old })

\* Both writers committed; one made two calls for a key, with deltas 3 and
\* 4; the other raced it on that key, caught a unique_violation and
\* updated; the row has the deltas of all three calls.
C10_Witness ==
    \E w \in Writers : \E o \in Writers \ {w} : \E k \in StoreKeys :
        /\ pc[w] = "committed" /\ pc[o] = "committed"
        /\ k \notin DOMAIN prior
        /\ Len(rows[w]) = 2 /\ rows[w][1].key = k /\ rows[w][2].key = k
        /\ rows[w][1].c = 3 /\ rows[w][2].c = 4
        /\ outcome[w] = <<"I", "U">>
        /\ retried[o] = 1
        /\ Len(rows[o]) = 1 /\ rows[o][1].key = k
        /\ table[k].count = 7 + rows[o][1].c

(***************************************************************************)
(* Progress of the procedure.  Two Update calls run their transactions to  *)
(* the end; nothing fails but what the server itself refuses.              *)
(***************************************************************************)
\* The statement of w waits for the row lock another open transaction holds:
\* the UPDATE of lines 88-92 on a committed row the other has updated, or
\* the INSERT of line 100 on a key the other has written.
Blocked(w) ==
    LET k == cur[w].key
    IN  \/ /\ pc[w] = "update"
           /\ k \notin DOMAIN pending[w]
           /\ k \in DOMAIN table
           /\ WrittenByOther(w, k)
        \/ /\ pc[w] = "insert"
           /\ WrittenByOther(w, k)

\* Each of the two transactions waits for a lock of the other.  The server
\* ends the statement of one of them with deadlock_detected: stmt.Query
\* returns the error (line 196) and lines 199-201 end the process, which
\* rolls the transaction back.
Deadlock(w) ==
    /\ Blocked(w)
    /\ \A o \in Writers \ {w} : Blocked(o)
    /\ pending' = [pending EXCEPT ![w] = Empty]
    /\ pc' = [pc EXCEPT ![w] = "aborted"]
    /\ UNCHANGED <<table, cur, rows, outcome, prior, retried>>
    /\ UNCHANGED <<aggVars, histVars, ioVars>>

NextStoreFair ==
    \/ \E w \in Writers, a \in StoreArgs : Call(w, a)
    \/ \E w \in Writers : TryUpdate(w)
    \/ \E w \in Writers : TryInsert(w)
    \/ \E w \in Writers : Commit(w)
    \/ \E w \in Writers : Deadlock(w)

\* A statement that can run does run, the server detects a deadlock, and an
\* Update call whose loops are over commits (line 245).
SpecStoreFair ==
    /\ InitStore
    /\ [][NextStoreFair]_vars
    /\ \A w \in Writers :
          /\ WF_vars(TryUpdate(w))
          /\ WF_vars(TryInsert(w))
          /\ WF_vars(Deadlock(w))
          /\ WF_vars(Commit(w))

\* C11: under fair scheduling every call of the procedure that has started
\* returns an outcome, 'I' or 'U', to its Update call.
C11_UpsertProgress ==
    \A w \in Writers :
        (pc[w] \in {"update", "insert"}) ~> (pc[w] = "idle")

(***************************************************************************)
(* PGStore.Update: one call, for a snapshot of upd.T tuple entries and     *)
(* upd.N individual entries.  The entries are told apart by their place in *)
(* the snapshot; the keys of a snapshot are distinct.                      *)
(***************************************************************************)
BATCHSIZE == 200
MaxEntries == 401
SnapshotSizes ==
    {0, 1, BATCHSIZE - 1, BATCHSIZE, BATCHSIZE + 1, 2 * BATCHSIZE, MaxEntries}
UpdatePriors == { {}, {<<"tuples", 1>>, <<"individual", 1>>} }

RowsOf(batch) == { batch[j] : j \in DOMAIN batch }

\* What the procedure returns for each row of a batch: 'U' for a key the
\* store or the transaction holds, 'I' for a new one.
codesOf(u, batch) ==
    [j \in DOMAIN batch |->
        IF batch[j] \in u.visible \cup u.tx THEN "U" ELSE "I"]

\* lines 206-212: one more Inserted for each 'I', one more Updated otherwise
tally(u, codes) ==
    LET ins == Cardinality({ j \in DOMAIN codes : codes[j] = "I" })
    IN  [u EXCEPT !.Inserted = @ + ins, !.Updated = @ + (Len(codes) - ins)]

\* lines 169, 176, 193: the statements are prepared on tx, so what they
\* write belongs to the transaction
execOnConn(u, batch) == [u EXCEPT !.visible = @ \cup RowsOf(batch)]
execIn(u, batch) == [u EXCEPT !.tx = @ \cup RowsOf(batch)]

\* lines 199-201: log.Fatal ends the process; the server rolls back the
\* transaction of the connection that went away.
exitProcess(u) == [u EXCEPT !.pc = "exited", !.tx = {}]

\* lines 185-213
runBatch(u, tmpl, ok) ==
    IF u.batchCounter = 0 THEN u
    ELSE IF ~ok THEN exitProcess(u)
    ELSE LET done == [u EXCEPT !.batches =
                         Append(@, [tmpl |-> tmpl, rows |-> u.arguments,
                                    batchSize |-> u.batchCounter])]
         IN  tally(execIn(done, u.arguments), codesOf(u, u.arguments))

\* lines 223, 228, 239: arguments = arguments[:0]
keepArguments(arguments) == arguments
resetArguments(arguments) == <<>>

\* lines 223-224, 228-229, 239-240, after a runBatch that returned
afterBatch(u) ==
    IF u.pc = "exited" THEN u
    ELSE [u EXCEPT !.arguments = resetArguments(@), !.batchCounter = 0]

\* lines 216-226 and 230-242: one turn of a loop
loopTurn(u, tmpl, ok) ==
    LET more == [u EXCEPT !.idx = @ + 1,
                          !.arguments = Append(@, <<tmpl, u.idx + 1>>),
                          !.batchCounter = @ + 1]
    IN  IF more.batchCounter = BATCHSIZE
        THEN afterBatch(runBatch(more, tmpl, ok))
        ELSE more

\* line 163: s.BeginTx()
UpdateBegin(ok) ==
    /\ upd.pc = "begin"
    /\ upd' = IF ok THEN [upd EXCEPT !.pc = "prepare"]
              ELSE [upd EXCEPT !.pc = "returned", !.err = "begin"]
    /\ UNCHANGED <<aggVars, histVars, storeVars, pipe, closer>>

\* lines 168-180: the two prepared statements
UpdatePrepare(ok) ==
    /\ upd.pc = "prepare"
    /\ upd' = IF ok THEN [upd EXCEPT !.pc = "tuples"]
              ELSE [upd EXCEPT !.pc = "returned", !.err = "prepare"]
    /\ UNCHANGED <<aggVars, histVars, storeVars, pipe, closer>>

\* lines 216-226
TupleTurn(ok) ==
    /\ upd.pc = "tuples" /\ upd.idx < upd.T
    /\ upd' = loopTurn(upd, "tuples", ok)
    /\ UNCHANGED <<aggVars, histVars, storeVars, pipe, closer>>

\* lines 227-229
TupleRest(ok) ==
    /\ upd.pc = "tuples" /\ upd.idx = upd.T
    /\ LET u == afterBatch(runBatch(upd, "tuples", ok))
       IN  upd' = IF u.pc = "exited" THEN u
                  ELSE [u EXCEPT !.pc = "individual", !.idx = 0]
    /\ UNCHANGED <<aggVars, histVars, storeVars, pipe, closer>>

\* lines 230-242
IndividualTurn(ok) ==
    /\ upd.pc = "individual" /\ upd.idx < upd.N
    /\ upd' = loopTurn(upd, "individual", ok)
    /\ UNCHANGED <<aggVars, histVars, storeVars, pipe, closer>>

\* lines 243-244
IndividualRest(ok) ==
    /\ upd.pc = "individual" /\ upd.idx = upd.N
    /\ LET u == runBatch(upd, "individual", ok)
       IN  upd' = IF u.pc = "exited" THEN u ELSE [u EXCEPT !.pc = "commit"]
    /\ UNCHANGED <<aggVars, histVars, storeVars, pipe, closer>>

\* line 245: s.Commit() makes what the transaction wrote visible, or fails
\* and leaves nothing of it.
UpdateCommit(ok) ==
    /\ upd.pc = "commit"
    /\ upd' = IF ok
              THEN [upd EXCEPT !.pc = "returned",
                               !.visible = @ \cup upd.tx, !.tx = {}]
              ELSE [upd EXCEPT !.pc = "returned", !.err = "commit", !.tx = {}]
    /\ UNCHANGED <<aggVars, histVars, storeVars, pipe, closer>>

InitUpdate ==
    /\ NewAggregators /\ Writers0(Empty)
    /\ pipe = NewPipe(0) /\ closer = NewCloser
    /\ \E T \in SnapshotSizes, N \in SnapshotSizes, old \in UpdatePriors :
          upd = NewUpdate(T, N, old)

NextUpdate ==
    \/ \E ok \in BOOLEAN : UpdateBegin(ok)
    \/ \E ok \in BOOLEAN : UpdatePrepare(ok)
    \/ \E ok \in BOOLEAN : TupleTurn(ok)
    \/ \E ok \in BOOLEAN : TupleRest(ok)
    \/ \E ok \in BOOLEAN : IndividualTurn(ok)
    \/ \E ok \in BOOLEAN : IndividualRest(ok)
    \/ \E ok \in BOOLEAN : UpdateCommit(ok)

SpecUpdate == InitUpdate /\ [][NextUpdate]_vars

(***************************************************************************)
(* Properties of Update.                                                   *)
(***************************************************************************)
\* The entries of the snapshot of the call.
EntriesOfKind(tmpl, n) == [i \in 1..n |-> <<tmpl, i>>]
AllEntries ==
    RowsOf(EntriesOfKind("tuples", upd.T))
    \cup RowsOf(EntriesOfKind("individual", upd.N))

\* C12: what the store shows is what it held before the call, and all the
\* rows of the snapshot once the call has returned from a commit that
\* succeeded; at no other time, and after no failure, any row of the call.
C12_AllOrNothing ==
    upd.visible =
        upd.prior \cup (IF upd.pc = "returned" /\ upd.err = "none"
                        THEN AllEntries ELSE {})

\* A third batch failed after two had been applied, on a store that held
\* rows: the store shows what it held before.
C12_Witness ==
    /\ upd.pc = "exited"
    /\ Len(upd.batches) = 2
    /\ upd.prior # {}
    /\ upd.visible = upd.prior

\* C13: a batch that fails does not end the process.
C13_FailureIsReturned == upd.pc # "exited"

\* The batches of one kind, in the order they ran, and their rows.
BatchesOf(tmpl) == SelectSeq(upd.batches, LAMBDA b : b.tmpl = tmpl)
RECURSIVE Flat(_)
Flat(bs) == IF bs = <<>> THEN <<>> ELSE Head(bs).rows \o Flat(Tail(bs))
ExactBatches(tmpl, n) ==
    LET bs == BatchesOf(tmpl)
        full == n \div BATCHSIZE
    IN  /\ Len(bs) = full + (IF n % BATCHSIZE = 0 THEN 0 ELSE 1)
        /\ \A j \in 1..Len(bs) :
              /\ bs[j].batchSize = Len(bs[j].rows)
              /\ Len(bs[j].rows) =
                    IF j <= full THEN BATCHSIZE ELSE n % BATCHSIZE
              /\ bs[j].rows # <<>>
        /\ Flat(bs) = EntriesOfKind(tmpl, n)

\* C16: when Update has returned without an error, the tuple entries went
\* to the procedure once each, in floor(T/BATCHSIZE) batches of BATCHSIZE
\* rows and one more of T mod BATCHSIZE rows if that is not 0, with no
\* empty batch and no row of another kind; the same for the individual
\* entries; and Inserted + Updated = T + N.
C16_BatchesAreExact ==
    (upd.pc = "returned" /\ upd.err = "none") =>
        /\ ExactBatches("tuples", upd.T)
        /\ ExactBatches("individual", upd.N)
        /\ Len(upd.batches) =
              Len(BatchesOf("tuples")) + Len(BatchesOf("individual"))
        /\ upd.Inserted + upd.Updated = upd.T + upd.N

\* Two full batches and a last one of fewer rows for the tuples, one full
\* batch and no other for the individual entries; one key of each kind was
\* in the store already.
C16_Witness ==
    /\ upd.pc = "returned" /\ upd.err = "none"
    /\ upd.T > 2 * BATCHSIZE /\ upd.N = BATCHSIZE
    /\ Len(upd.batches) = 4
    /\ upd.Updated = 2

(***************************************************************************)
(* TupleJSONReader and IndividualJSONReader: a goroutine encodes the       *)
(* entries of the snapshot, one Encode and so one Write on the pipe for    *)
(* each, and the caller reads the other end of the pipe.  An entry is told *)
(* by its place in the snapshot; the consumer takes the bytes of a record  *)
(* in one Read or in several.                                              *)
(***************************************************************************)
MaxExport == 4
MaxChunks == 3
ExportSizes == 0..MaxExport

\* lines 309-313 and the deferred pw.Close() of line 292: Encode returned
\* the error of a Write on a pipe whose read end is closed.
writeIgnoresClose(p) == p
writeAfterClose(p) == [p EXCEPT !.pc = "done", !.wrClosed = TRUE]

\* line 309: Encode returns when its Write does, that is when the reader
\* has taken all the bytes of the record.
writeReturnsAtOnce(p) == TRUE
writeReturns(p) == p.left = 0

\* lines 294-309: the next turn of the loop starts an Encode, whose Write
\* offers the bytes of entry i to the reader.
Encode ==
    /\ pipe.pc = "encode" /\ pipe.i <= pipe.n
    /\ pipe' = IF pipe.rdClosed THEN writeAfterClose(pipe)
               ELSE [pipe EXCEPT !.pc = "write", !.left = MaxChunks]
    /\ UNCHANGED <<aggVars, histVars, storeVars, upd, closer>>

\* line 309: the Write, and so Encode, returns without an error.
WriteReturn ==
    /\ pipe.pc = "write" /\ ~pipe.rdClosed
    /\ writeReturns(pipe)
    /\ pipe' = [pipe EXCEPT !.pc = "encode", !.i = @ + 1, !.left = 0]
    /\ UNCHANGED <<aggVars, histVars, storeVars, upd, closer>>

\* lines 309-313: the read end was closed while the Write waited.
WriteFails ==
    /\ pipe.pc = "write" /\ pipe.rdClosed
    /\ pipe' = writeAfterClose(pipe)
    /\ UNCHANGED <<aggVars, histVars, storeVars, upd, closer>>

\* lines 314-315, 292: the loop is over and the deferred pw.Close() runs.
LoopEnd ==
    /\ pipe.pc = "encode" /\ pipe.i > pipe.n
    /\ pipe' = [pipe EXCEPT !.pc = "done", !.wrClosed = TRUE]
    /\ UNCHANGED <<aggVars, histVars, storeVars, upd, closer>>

\* The consumer's Read on the io.ReadCloser of lines 316 and 354 takes c of
\* the bytes the Write offers; with the last of them it has the record.
Read(c) ==
    /\ ~pipe.rdClosed
    /\ pipe.pc = "write" /\ c <= pipe.left
    /\ pipe' = IF c = pipe.left
               THEN [pipe EXCEPT !.left = 0, !.part = 0,
                                 !.got = Append(@, pipe.i)]
               ELSE [pipe EXCEPT !.left = @ - c, !.part = @ + c]
    /\ UNCHANGED <<aggVars, histVars, storeVars, upd, closer>>

\* The consumer's Read finds the write end closed: end of stream.
ReadEOF ==
    /\ ~pipe.rdClosed /\ pipe.wrClosed /\ ~pipe.eof
    /\ pipe' = [pipe EXCEPT !.eof = TRUE]
    /\ UNCHANGED <<aggVars, histVars, storeVars, upd, closer>>

\* The consumer's Close on the io.ReadCloser.
ReaderClose ==
    /\ ~pipe.rdClosed
    /\ pipe' = [pipe EXCEPT !.rdClosed = TRUE]
    /\ UNCHANGED <<aggVars, histVars, storeVars, upd, closer>>

Producer == Encode \/ WriteReturn \/ WriteFails \/ LoopEnd

InitExport ==
    /\ NewAggregators /\ Writers0(Empty)
    /\ upd = NewUpdate(0, 0, {}) /\ closer = NewCloser
    /\ \E n \in ExportSizes : pipe = NewPipe(n)

NextExport ==
    \/ Encode
    \/ WriteReturn
    \/ WriteFails
    \/ LoopEnd
    \/ \E c \in 1..MaxChunks : Read(c)
    \/ ReadEOF
    \/ ReaderClose

\* The goroutine of lines 291-315 runs whenever it can; nothing makes the
\* consumer read or close.
SpecExport == InitExport /\ [][NextExport]_vars /\ WF_vars(Producer)

\* C14: once the consumer has closed the stream it is handed no byte more,
\* and the producer ends; with a consumer that has not closed, the producer
\* ends only after the last record was read, and does end then.
C14_Cancellation ==
    /\ [][pipe.rdClosed =>
            pipe'.got = pipe.got /\ pipe'.part = pipe.part]_vars
    /\ [](pipe.pc = "done" /\ ~pipe.rdClosed => Len(pipe.got) = pipe.n)
    /\ (pipe.rdClosed \/ Len(pipe.got) = pipe.n) ~> (pipe.pc = "done")

\* The consumer closed with part of the second record read and two more to
\* come, and the producer's Write failed: the producer is over.
C14_Witness ==
    /\ pipe.rdClosed /\ pipe.pc = "done"
    /\ pipe.got = <<1>> /\ pipe.part > 0 /\ pipe.i = 2 /\ pipe.n = 4

\* C15: the producer is never past the record that follows the last one the
\* consumer has read in full; the consumer has read the records in the
\* order of the snapshot, each once; and at the end of the stream it has
\* all of them, and none after.
C15_SynchronousHandoff ==
    /\ [](/\ pipe.i <= Len(pipe.got) + 1
          /\ pipe.pc = "write" /\ pipe.left > 0 => pipe.i = Len(pipe.got) + 1
          /\ pipe.got = [k \in 1..Len(pipe.got) |-> k]
          /\ pipe.eof => pipe.got = [k \in 1..pipe.n |-> k])
    /\ [][pipe.eof => pipe'.got = pipe.got]_vars

\* A consumer that read to the end of a stream of three records or more,
\* one of them in several reads.
C15_Witness ==
    /\ pipe.eof /\ ~pipe.rdClosed
    /\ pipe.n >= 3 /\ Len(pipe.got) = pipe.n

(***************************************************************************)
(* PGStore.Close.  closer.depth is the number of frames of Close on the    *)
(* stack of the goroutine, closer.released the number of times the         *)
(* connection was released.                                                *)
(***************************************************************************)
\* The frames of Close the stack of a goroutine has room for.
MaxStack == 128

\* line 125: the caller enters Close
CloseCall ==
    /\ closer.pc = "open"
    /\ closer' = [closer EXCEPT !.pc = "closing", !.depth = 1]
    /\ UNCHANGED <<aggVars, histVars, storeVars, upd, pipe>>

\* line 126: s is the *PGStore, so s.Close() is this method again
CloseSelf ==
    /\ closer.pc = "closing" /\ closer.depth < MaxStack
    /\ closer' = [closer EXCEPT !.depth = @ + 1]
    /\ UNCHANGED <<aggVars, histVars, storeVars, upd, pipe>>

\* line 126: no room for one more frame; the runtime ends the process with
\* "stack overflow"
StackOverflow ==
    /\ closer.pc = "closing" /\ closer.depth = MaxStack
    /\ closer' = [closer EXCEPT !.pc = "crashed"]
    /\ UNCHANGED <<aggVars, histVars, storeVars, upd, pipe>>

InitClose ==
    /\ NewAggregators /\ Writers0(Empty)
    /\ upd = NewUpdate(0, 0, {}) /\ pipe = NewPipe(0)
    /\ closer = NewCloser

NextClose == CloseCall \/ CloseSelf \/ StackOverflow

SpecClose == InitClose /\ [][NextClose]_vars /\ WF_vars(NextClose)

\* C17: a call of Close returns, with the connection released once.
C17_CloseReturns ==
    (closer.pc = "closing") ~> (closer.pc = "closed" /\ closer.released = 1)

(***************************************************************************)
(* Aggregators that go on being used after a Merge.                        *)
(***************************************************************************)
\* C18: a call of AddRecord or Merge on an aggregator changes no Stat of
\* any other aggregator, whatever was merged into what before.
C18_NoSharedState ==
    [][\A d \in Aggs :
          (\/ accepted'[d] # accepted[d]
           \/ rejected'[d] # rejected[d]
           \/ \E other \in Aggs : Merge(d, other))
          => \A g \in Aggs \ {d} : Contents'[g] = Contents[g]]_vars

\* Records of two queries with the same answers, for two tuple keys of one
\* answer.
MapQueries == {"www.example.com", "mail.example.com"}
MapSlots == { <<"1.1.1.1", TTL60>>, <<"-", TTLDash>>, <<InsaneValue, TTL60>> }
MapRecords ==
    { [ts |-> 1, query |-> q, qtype |-> "A",
       answers |-> [j \in DOMAIN s |-> s[j][1]],
       ttls |-> [j \in DOMAIN s |-> s[j][2]]] :
        q \in MapQueries,
        s \in UNION { [1..n -> MapSlots] : n \in 0..MaxAnswers } }

NextMaps ==
    \/ \E d \in Pair, r \in MapRecords : Add(d, r)
    \/ \E d \in Pair : Skip(d)
    \/ \E d, other \in Pair : Fold(d, other)

SpecMaps == Init /\ [][NextMaps]_vars

\* The tuple keys of d with answer a.
TuplesOfAnswer(d, a) == { k \in DOMAIN queries[d] : k.answer = a }

\* C19: in every aggregator every tuple key has the individual keys of its
\* query and of its answer, and the count of the individual key of an
\* answer is the sum of the counts of the tuple keys with that answer.
C19_MapsConsistent ==
    \A d \in Aggs :
        /\ \A k \in DOMAIN queries[d] :
              /\ uniqueIndividual(k.query, "Q") \in DOMAIN values[d]
              /\ uniqueIndividual(k.answer, "A") \in DOMAIN values[d]
        /\ \A v \in DOMAIN values[d] : v.which = "A" =>
              LET T == TuplesOfAnswer(d, v.value)
              IN  Deref(values[d], heap, v).count =
                     SumOf([k \in T |-> Deref(queries[d], heap, k).count], T)

(***************************************************************************)
(* The codes the procedure returns.                                        *)
(***************************************************************************)
\* The calls for key k, of the writers in W, that returned 'I'.
InsertsFor(k, W) ==
    { x \in W \X (1..MaxRows) :
        /\ x[2] <= Len(outcome[x[1]])
        /\ rows[x[1]][x[2]].key = k
        /\ outcome[x[1]][x[2]] = "I" }
Committed == { w \in Writers : pc[w] = "committed" }

\* C20, as the claim has it: of all the calls for a key, none returns 'I'
\* when the table held the key before, and at most one does when it did
\* not.
C20_ExactCodes ==
    \A k \in StoreKeys :
        Cardinality(InsertsFor(k, Writers))
            <= (IF k \in DOMAIN prior THEN 0 ELSE 1)

\* C20, for the transactions that commit: every call returned 'I' or 'U';
\* for a key the table held before no call returned 'I'; for a key it did
\* not hold exactly one call returned 'I'; and at no time have two open
\* transactions written a row of the same key.
C20_ExactCodesCommitted ==
    /\ \A w \in Committed :
          /\ Len(outcome[w]) = Len(rows[w])
          /\ \A j \in DOMAIN outcome[w] : outcome[w][j] \in {"I", "U"}
    /\ \A k \in StoreKeys :
          /\ k \in DOMAIN prior => InsertsFor(k, Committed) = {}
          /\ (k \notin DOMAIN prior /\ CommittedCalls(k) # {})
                => Cardinality(InsertsFor(k, Committed)) = 1
          /\ Cardinality({ w \in Writers : k \in DOMAIN pending[w] }) <= 1

\* Both writers committed calls for a key the table did not hold, three
\* calls in all, one of them after a unique_violation: one 'I', two 'U'.
C20_Witness ==
    \E k \in StoreKeys \ DOMAIN prior :
        /\ Committed = Writers
        /\ Cardinality(CommittedCalls(k)) = 3
        /\ Cardinality(InsertsFor(k, Writers)) = 1
        /\ \E w \in Writers : retried[w] > 0

====
